---- MODULE Spec2Model ----
(***************************************************************************)
(* Per-session download orchestrator of src/bot.py, for one chat.          *)
(*                                                                         *)
(* Updates are dispatched by Application.run_polling as built in main()    *)
(* (no concurrent_updates, blocking handlers): one handler runs to its end *)
(* before the next update is taken.  The process may stop at any point; it *)
(* then restarts from the record last written by save_user_session.        *)
(* A handler is split into steps at its save_user_session calls, so every  *)
(* record a stop can leave behind is a state of the model.  File writes    *)
(* are taken to succeed and to be whole.                                   *)
(***************************************************************************)
EXTENDS Integers, Sequences, FiniteSets, TLC

VARIABLES
    mem,          \* user_download_sessions[chat_id]
    aliased,      \* mem.active is the very dict object held in mem.queue
    disk,         \* <chat_id>.json
    pc,           \* position of the handler in progress
    ctx,          \* the handler's event and locals
    run,          \* locals of download_and_send_video
    files,        \* urls whose downloaded media file exists locally
    thumbs,       \* urls whose thumbnail file exists locally
    qmsgs,        \* status messages that carry the quality buttons
    nextId,       \* next unique_id (uuid4 is modelled as a counter)
    shouldDelete, \* SHOULD_DELETE_FILE
    pruned,       \* urls whose item was removed at a terminal outcome and
                  \* that were not submitted since
    peer          \* an update of another chat waits in the update queue

vars == <<mem, aliased, disk, pc, ctx, run, files, thumbs, qmsgs,
          nextId, shouldDelete, pruned, peer>>

----------------------------------------------------------------------------
(* Bounds *)

MaxItems == 2
MaxMsgs == 2
NumUrls == 2
MaxLinks == 2

----------------------------------------------------------------------------
(* Program constants *)

TELEGRAM_MAX_FILE_SIZE_BYTES == 1950000000
TELEGRAM_VIDEO_FILE_SIZE_LIMIT_BYTES == 52428800
NoSize == -1

Urls == 1..NumUrls

\* Sizes a probe or a downloaded file can have (bytes): 30 MB, both sides of
\* the 50 MB limit, 500 MB, both sides of the 1.95 GB limit.
Sizes == {0, 31457280, 52428800, 52428801, 524288000, 1950000000, 1950000001}
ProbeSizes == Sizes \cup {NoSize}

TerminalStatuses == {"completed", "cancelled", "failed", "failed_sending", "failed_internal"}
RetryStatuses == {"parse_failed", "failed_last_attempt"}

----------------------------------------------------------------------------
(* Items and sessions *)

\* An item dict: unique_id, url, status.  Its format_string and
\* initial_message_id are read only from the active item: the format by the
\* run that is given it (run.fmt), the message id by the button handler
\* (session.amsg); every start writes both anew.
None == [id |-> 0, url |-> 0, status |-> "none"]

\* A session dict: active_download and queue.  last_user_message_id and
\* selection_buttons_message_id are left out: nothing here reads the first,
\* and the second decides only whether list_downloads saves at line 187.

\* Variant of NewItem whose id is derived from the url.
NewItem_UrlId(id, url) ==
    [id |-> url, url |-> url, status |-> "pending"]

\* Lines 811-818: a new item, with a fresh uuid4 as unique_id.
NewItem(id, url) ==
    [id |-> id, url |-> url, status |-> "pending"]

NoSession == [present |-> FALSE, active |-> None, amsg |-> 0, queue |-> <<>>]

EmptySession == [present |-> TRUE, active |-> None, amsg |-> 0, queue |-> <<>>]

load_user_session(d) == IF d.present THEN d ELSE NoSession

save_user_session(s) == s

IndexOf(q, id) ==
    IF \E i \in DOMAIN q : q[i].id = id
    THEN CHOOSE i \in DOMAIN q : q[i].id = id /\ \A j \in 1..(i - 1) : q[j].id # id
    ELSE 0

IndexOfUrl(q, url) ==
    IF \E i \in DOMAIN q : q[i].url = url
    THEN CHOOSE i \in DOMAIN q : q[i].url = url /\ \A j \in 1..(i - 1) : q[j].url # url
    ELSE 0

\* Variant of RemoveId that hands the remaining entries back in reverse order.
RemoveId_Reversed(q, id) ==
    LET r == SelectSeq(q, LAMBDA it : it.id # id)
    IN  [i \in 1..Len(r) |-> r[Len(r) + 1 - i]]

RemoveId(q, id) == SelectSeq(q, LAMBDA it : it.id # id)

QueueIds(s) == {s.queue[i].id : i \in DOMAIN s.queue}

QueueUrls(s) == {s.queue[i].url : i \in DOMAIN s.queue}

\* A write to a key of session['active_download']: it is seen through the
\* queue as well when both hold the same dict object.
WriteActive(s, al, a) ==
    LET i == IndexOf(s.queue, s.active.id)
    IN  [s EXCEPT !.active = a,
                  !.queue = IF al /\ i # 0 THEN [s.queue EXCEPT ![i] = a] ELSE s.queue]

SetStatus(s, al, st) == WriteActive(s, al, [s.active EXCEPT !.status = st])

ClearActive(s) == [s EXCEPT !.active = None, !.amsg = 0]

\* A handler's event and locals: the kind of event, the id its button
\* carries, status_message.message_id, whether control is inside the try of
\* lines 902-983, urls_needing_parsing, the urls of the message, and those of
\* them whose earlier item was pruned at a terminal outcome, the status the
\* selected queue entry had (line 917), and the value download_and_send_video
\* returned.
NoCtx == [kind |-> "none", id |-> 0, msg |-> 0, stage |-> "plain", new |-> <<>>,
          urls |-> <<>>, again |-> {}, was |-> "none", ret |-> FALSE]

\* Locals of a run: download_item's unique_id, url, initial_message_id and
\* format_string, file_size_initial_estimate, the branch taken for it,
\* whether file_path and thumbnail_path are set, the branch taken for the
\* measured size, that size where the file goes on to be sent, send_as_video,
\* the call _send_media_file made for the user, user_send_success, the
\* outcome of the forward to the channel, the
\* except clause that took an exception ("download": a clause for fetcher
\* errors, lines 494-519 and 672; "other": the clause of line 686), the value
\* to return, and whether an exception is on its way out of the function.
NoRun == [id |-> 0, url |-> 0, msg |-> 0, fmt |-> "none", est |-> NoSize, decision |-> "none",
          file |-> FALSE, thumb |-> FALSE, sized |-> "none", size |-> NoSize,
          asVideo |-> FALSE, mode |-> "none", sent |-> "unset",
          mirror |-> "none", caught |-> "none",
          ret |-> FALSE, exc |-> FALSE]

----------------------------------------------------------------------------
(* Initial state: the process has started with no user data file. *)

Init ==
    /\ mem = NoSession
    /\ aliased = FALSE
    /\ disk = NoSession
    /\ pc = "idle"
    /\ ctx = NoCtx
    /\ run = NoRun
    /\ files = {}
    /\ thumbs = {}
    /\ qmsgs = {}
    /\ nextId = 1
    /\ shouldDelete \in BOOLEAN
    /\ pruned = {}
    /\ peer = FALSE

\* Control returns to the dispatcher.
ToIdle ==
    /\ pc' = "idle"
    /\ ctx' = NoCtx
    /\ run' = NoRun

\* list_downloads is called (lines 856, 927, 974, 980-982, 1010, 1035, 1152,
\* and the /list command).  The caller's locals are kept only where they are
\* read afterwards, by the except clause of line 984.
ListCtx(kind) == [NoCtx EXCEPT !.kind = kind]

CallList(c) ==
    /\ pc' = "l_del"
    /\ ctx' = IF c.kind \in {"start", "reparse"} /\ c.stage = "try" THEN c
              ELSE [ListCtx(c.kind) EXCEPT !.ret = c.ret]

----------------------------------------------------------------------------
(* handle_video_link *)

LinkSeqs == UNION {[1..n -> Urls] : n \in 1..MaxLinks}

\* Lines 764-776: the cached session, else the stored one, else a fresh one.
EnsureSession(m, d) ==
    IF m.present THEN m ELSE IF d.present THEN load_user_session(d) ELSE EmptySession

\* Variant of ExistingUrls that looks at the active item only.
ExistingUrls_ActiveOnly(s) == IF s.active # None THEN {s.active.url} ELSE {}

\* Lines 798-806: the urls held by the active item and the queue.
ExistingUrls(s) == (IF s.active # None THEN {s.active.url} ELSE {}) \cup QueueUrls(s)

FoundItem(s, url) ==
    IF s.active # None /\ s.active.url = url THEN s.active
    ELSE LET i == IndexOfUrl(s.queue, url) IN IF i # 0 THEN s.queue[i] ELSE None

\* The loop of lines 809-832.  A reply_text that fails raises out of the
\* handler, leaving what was appended so far in memory only.
RECURSIVE EnqueueLoop(_, _, _, _, _, _)
EnqueueLoop(s, existing, urls, nid, new, replyOk) ==
    IF urls = <<>> THEN [s |-> s, nid |-> nid, new |-> new, raised |-> FALSE]
    ELSE LET url == Head(urls) IN
         IF url \notin existing
         THEN EnqueueLoop([s EXCEPT !.queue = Append(@, NewItem(nid, url))],
                          existing \cup {url}, Tail(urls), nid + 1,
                          Append(new, [idx |-> Len(s.queue) + 1, url |-> url]), replyOk)
         ELSE IF FoundItem(s, url).status \in RetryStatuses /\ ~replyOk
              THEN [s |-> s, nid |-> nid, new |-> new, raised |-> TRUE]
              ELSE EnqueueLoop(s, existing, Tail(urls), nid, new, replyOk)

\* Lines 757-835.
HandleVideoLink ==
    /\ pc = "idle"
    /\ \E urls \in LinkSeqs, replyOk \in BOOLEAN :
         LET s0 == EnsureSession(mem, disk)
             r  == EnqueueLoop(s0, ExistingUrls(s0), urls, nextId, <<>>, replyOk)
         IN  /\ r.nid <= MaxItems + 1
             /\ mem' = r.s
             /\ nextId' = r.nid
             /\ aliased' = (aliased /\ mem.present)
             /\ IF r.raised
                THEN /\ disk' = disk
                     /\ ToIdle
                ELSE /\ disk' = save_user_session(r.s)
                     /\ pc' = "h_titles"
                     /\ ctx' = [NoCtx EXCEPT !.kind = "link", !.new = r.new, !.urls = urls,
                                              !.again = pruned \cap {r.new[k].url : k \in DOMAIN r.new}]
                     /\ UNCHANGED run
    /\ pruned' = pruned \ {mem'.queue[i].url : i \in DOMAIN mem'.queue}
    /\ UNCHANGED <<files, thumbs, qmsgs, shouldDelete, peer>>

\* Lines 843-850: a result is written only where the queue still holds the
\* probed url at the remembered index.
ApplyTitles(q, new, res) ==
    [i \in DOMAIN q |->
        IF \E k \in DOMAIN new : new[k].idx = i /\ q[i].url = new[k].url
        THEN LET k == CHOOSE k \in DOMAIN new : new[k].idx = i /\ q[i].url = new[k].url
             IN  IF res[k] THEN q[i] ELSE [q[i] EXCEPT !.status = "parse_failed"]
        ELSE q[i]]

\* Lines 840-857.
TitlesFetched ==
    /\ pc = "h_titles"
    /\ \E res \in [DOMAIN ctx.new -> BOOLEAN] :
         /\ mem' = [mem EXCEPT !.queue = ApplyTitles(mem.queue, ctx.new, res)]
         /\ disk' = save_user_session(mem')
    /\ CallList(ctx)
    /\ UNCHANGED <<aliased, run, files, thumbs, qmsgs, nextId,
                   shouldDelete, peer, pruned>>

----------------------------------------------------------------------------
(* list_downloads *)

\* Lines 194-225.
DisplayItems(s) ==
    (IF s.active # None /\ s.active.status \notin RetryStatuses THEN <<s.active>> ELSE <<>>)
    \o SelectSeq(s.queue, LAMBDA it : it.status \notin TerminalStatuses)

\* Variant of ReconcileFailedActive that appends the failed item without
\* looking for its entry and leaves the active slot as it is.
ReconcileFailedActive_AppendKeep(s) ==
    IF s.active # None /\ s.active.status \in RetryStatuses
    THEN [s EXCEPT !.queue = Append(s.queue, s.active)]
    ELSE s

\* Lines 200-212.
ReconcileFailedActive(s) ==
    IF s.active # None /\ s.active.status \in RetryStatuses
    THEN LET i == IndexOf(s.queue, s.active.id)
         IN  [s EXCEPT !.queue = IF i # 0 THEN [s.queue EXCEPT ![i].status = s.active.status]
                                 ELSE Append(s.queue, s.active),
                       !.active = None, !.amsg = 0]
    ELSE s

\* Lines 242-253: the marker put before the title of a row (the title itself
\* is not changed by the list and is left out).
Marker(status) ==
    IF status \in {"parse_failed", "pending", "failed_last_attempt", "downloading", "sending"}
    THEN status ELSE "title"

\* Lines 238-256: the numbered rows of the text.
ListText(items) ==
    [i \in DOMAIN items |-> [n |-> i, marker |-> Marker(items[i].status), url |-> items[i].url]]

\* Variant of ActionButton that offers a start for every item that is not
\* under way.
ActionButton_StartAlways(it, i) ==
    IF it.status \in {"pending", "failed_last_attempt", "parse_failed"}
    THEN [data |-> "start_download", arg |-> it.id]
    ELSE [data |-> "_no_op_dummy", arg |-> i]

\* Lines 259-270: the numbered button of item i (counted from 0).
ActionButton(it, i) ==
    IF it.status \in {"pending", "failed_last_attempt"}
    THEN [data |-> "start_download", arg |-> it.id]
    ELSE IF it.status = "parse_failed"
    THEN [data |-> "reparse_item", arg |-> it.id]
    ELSE [data |-> "_no_op_dummy", arg |-> i]

\* Lines 263-274: the buttons of one item.
ItemButtons(it, i) ==
    <<ActionButton(it, i)>>
    \o (IF it.status \in RetryStatuses THEN <<[data |-> "remove_item", arg |-> it.id]>> ELSE <<>>)

\* Lines 237-285: the loop that fills the rows of the keyboard.
RECURSIVE KeyboardRows(_, _, _, _)
KeyboardRows(items, i, row, kb) ==
    IF i > Len(items) THEN [kb |-> kb, row |-> row]
    ELSE LET r == row \o ItemButtons(items[i], i - 1)
         IN  IF \/ Len(r) >= 2 /\ i = Len(items)
                \/ Len(r) = 2
                \/ Len(r) = 3
             THEN KeyboardRows(items, i + 1, <<>>, Append(kb, r))
             ELSE KeyboardRows(items, i + 1, r, kb)

\* Lines 288-289: a last row that is not full is padded to three buttons.
PadRow(row) ==
    row \o [k \in 1..(3 - Len(row)) |-> [data |-> "_no_op", arg |-> 0]]

\* Lines 228-298: the keyboard of the list message (none when nothing is
\* shown).
Keyboard(items) ==
    IF items = <<>> THEN <<>>
    ELSE LET k == KeyboardRows(items, 1, <<>>, <<>>)
         IN  k.kb \o (IF k.row # <<>> THEN <<PadRow(k.row)>> ELSE <<>>)
                  \o << <<[data |-> "clear_all", arg |-> 0]>> >>

\* Lines 191-306: what list_downloads shows for a session it has reconciled.
Rendered(s) ==
    [text |-> ListText(DisplayItems(s)), keyboard |-> Keyboard(DisplayItems(s))]

\* The /list command, lines 165-180.
ListCommand ==
    /\ pc = "idle"
    /\ mem' = EnsureSession(mem, disk)
    /\ disk' = IF ~mem.present /\ ~disk.present THEN save_user_session(mem') ELSE disk
    /\ aliased' = (aliased /\ mem.present)
    /\ CallList(ListCtx("list"))
    /\ UNCHANGED <<run, files, thumbs, qmsgs, nextId, shouldDelete, peer, pruned>>

\* Lines 183-189: when the previous list message is deleted the session is
\* saved.
ListDeleteOld ==
    /\ pc = "l_del"
    /\ \E deleted \in BOOLEAN :
         disk' = IF deleted THEN save_user_session(mem) ELSE disk
    /\ pc' = "l_show"
    /\ UNCHANGED <<mem, aliased, ctx, run, files, thumbs, qmsgs, nextId,
                   shouldDelete, peer, pruned>>

\* list_downloads ends: it returns, or its send raised.  Inside the try of
\* lines 902-983 the exception is taken by the except clause of line 984.
ListReturn(raised) ==
    IF raised /\ ctx.kind \in {"start", "reparse"} /\ ctx.stage = "try"
    THEN /\ pc' = "h_except"
         /\ UNCHANGED <<ctx, run>>
    ELSE ToIdle

\* Lines 197-309: a failed active item goes back to the queue (saved at line
\* 212), then the list is sent (saved at line 306 when it has rows).
ListShow ==
    /\ pc = "l_show"
    /\ mem' = ReconcileFailedActive(mem)
    /\ \E sendOk \in BOOLEAN :
         /\ disk' = IF mem' # mem \/ (DisplayItems(mem') # <<>> /\ sendOk)
                    THEN save_user_session(mem') ELSE disk
         /\ ListReturn(~sendOk)
    /\ aliased' = (aliased /\ mem'.active # None)
    /\ UNCHANGED <<files, thumbs, qmsgs, nextId, shouldDelete, peer, pruned>>

----------------------------------------------------------------------------
(* The process stops and is started again: main(), lines 1172-1192. *)

Restart ==
    /\ mem' = load_user_session(disk)
    /\ aliased' = FALSE
    /\ ToIdle
    /\ UNCHANGED <<disk, files, thumbs, qmsgs, nextId, shouldDelete, peer, pruned>>

----------------------------------------------------------------------------
(* button_callback_handler *)

\* Ids a button can carry: those handed out so far (a list message that was
\* not deleted keeps its buttons).
KnownIds == 1..(nextId - 1)

\* Lines 361-365: the locals taken from download_item.
CallPipeline(s, fmt) ==
    [NoRun EXCEPT !.id = s.active.id, !.url = s.active.url, !.msg = s.amsg, !.fmt = fmt]

\* message_ids in use; send_message returns one that is not.  (An id no
\* longer referred to anywhere may be handed out again.)
UsedMsgs == (qmsgs \cup {mem.amsg, disk.amsg, ctx.msg, run.msg}) \ {0}

FreshMsg == CHOOSE m \in (1..MaxMsgs) \ UsedMsgs : \A k \in (1..MaxMsgs) \ UsedMsgs : m <= k

\* Lines 868-882 when the record is missing: the session is re-initialised.
ButtonReset ==
    /\ pc = "idle"
    /\ ~disk.present
    /\ mem' = EmptySession
    /\ aliased' = FALSE
    /\ \E sendOk \in BOOLEAN :
         IF sendOk
         THEN /\ disk' = save_user_session(mem')
              /\ CallList(ListCtx("reset"))
              /\ UNCHANGED run
         ELSE /\ disk' = disk
              /\ ToIdle
    /\ UNCHANGED <<files, thumbs, qmsgs, nextId, shouldDelete, peer, pruned>>

\* Lines 884-887, after the reload of lines 869 and 882.
ButtonNoOp ==
    /\ pc = "idle"
    /\ disk.present
    /\ mem' = load_user_session(disk)
    /\ aliased' = FALSE
    /\ ToIdle
    /\ UNCHANGED <<disk, files, thumbs, qmsgs, nextId, shouldDelete, peer, pruned>>

\* Variant of StartCheck that lacks the test of line 895.
StartCheck_NoBusy(s, id, reparse) ==
    LET i == IndexOf(s.queue, id)
    IN  IF i = 0 THEN "missing"
        ELSE IF ~reparse /\ s.queue[i].status \notin {"pending", "failed_last_attempt"}
             THEN "wrong_status"
        ELSE IF reparse /\ s.queue[i].status # "parse_failed" THEN "wrong_status"
        ELSE "ok"

\* Lines 895-926: "busy", "missing", "wrong_status" or "ok".
StartCheck(s, id, reparse) ==
    LET i == IndexOf(s.queue, id)
    IN  IF s.active # None THEN "busy"
        ELSE IF i = 0 THEN "missing"
        ELSE IF ~reparse /\ s.queue[i].status \notin {"pending", "failed_last_attempt"}
             THEN "wrong_status"
        ELSE IF reparse /\ s.queue[i].status # "parse_failed" THEN "wrong_status"
        ELSE "ok"

\* Variant of Promote that leaves the status of the queue entry as it was.
Promote_SlotOnly(s, id, reparse, m) ==
    LET i  == IndexOf(s.queue, id)
        it == [s.queue[i] EXCEPT !.status = IF reparse THEN "pending" ELSE "downloading"]
    IN  [s EXCEPT !.active = it, !.amsg = m]

\* Lines 941-952 and 977-979: the queue entry becomes the active item.
Promote(s, id, reparse, m) ==
    LET i  == IndexOf(s.queue, id)
        it == [s.queue[i] EXCEPT !.status = IF reparse THEN "pending" ELSE "downloading"]
    IN  [s EXCEPT !.active = it, !.amsg = m, !.queue = [s.queue EXCEPT ![i] = it]]

\* Lines 889-952 (start_download_<id>, reparse_item_<id>).
ButtonStart ==
    /\ pc = "idle"
    /\ disk.present
    /\ \E id \in KnownIds, reparse \in BOOLEAN, editOk \in BOOLEAN, sendOk \in BOOLEAN :
         LET s     == load_user_session(disk)
             check == StartCheck(s, id, reparse)
             c     == [NoCtx EXCEPT !.kind = IF reparse THEN "reparse" ELSE "start",
                                    !.id = id, !.stage = "try"]
         IN  IF check = "busy"
             THEN /\ mem' = s
                  /\ aliased' = FALSE
                  /\ ToIdle
                  /\ UNCHANGED disk
             ELSE IF check # "ok" \/ ~editOk \/ ~sendOk
             THEN /\ mem' = s
                  /\ aliased' = FALSE
                  /\ IF check # "ok" /\ editOk
                     THEN CallList(c)
                     ELSE /\ pc' = "h_except"
                          /\ ctx' = c
                  /\ UNCHANGED <<disk, run>>
             ELSE /\ (1..MaxMsgs) \ UsedMsgs # {}
                  /\ mem' = Promote(s, id, reparse, FreshMsg)
                  /\ aliased' = TRUE
                  /\ disk' = save_user_session(mem')
                  /\ ctx' = [c EXCEPT !.msg = FreshMsg,
                                       !.was = s.queue[IndexOf(s.queue, id)].status]
                  /\ pc' = IF reparse THEN "h_reparse" ELSE "p_entry"
                  /\ run' = IF reparse THEN NoRun ELSE CallPipeline(mem', "best")
    /\ UNCHANGED <<files, thumbs, qmsgs, nextId, shouldDelete, peer, pruned>>

\* Lines 954-974: the probe of a re-parse.
ReparseProbe ==
    /\ pc = "h_reparse"
    /\ \E probeOk \in BOOLEAN, editOk \in BOOLEAN :
         IF probeOk
         THEN /\ mem' = SetStatus(mem, aliased, "pending")
              /\ pc' = "p_entry"
              /\ run' = CallPipeline(mem', "best")
         ELSE /\ mem' = SetStatus(mem, aliased, "parse_failed")
              /\ pc' = IF editOk THEN "l_del" ELSE "h_except"
              /\ run' = run
    /\ disk' = save_user_session(mem')
    /\ UNCHANGED <<aliased, ctx, files, thumbs, qmsgs, nextId, shouldDelete, peer, pruned>>

\* Lines 984-1011: the except clause of the start / re-parse branch.
StartExcept ==
    /\ pc = "h_except"
    /\ \E editOk \in BOOLEAN, sendOk \in BOOLEAN :
         /\ IF mem.active # None /\ mem.active.id = ctx.id
            THEN /\ mem' = ClearActive([mem EXCEPT !.queue = RemoveId(mem.queue, ctx.id)])
                 /\ disk' = save_user_session(mem')
                 /\ pruned' = pruned \cup {mem.active.url}
                 /\ qmsgs' = IF editOk THEN qmsgs \ {ctx.msg} ELSE qmsgs
            ELSE UNCHANGED <<mem, disk, pruned, qmsgs>>
         /\ IF (mem.active # None /\ mem.active.id = ctx.id /\ editOk) \/ sendOk
            THEN /\ CallList([ctx EXCEPT !.stage = "except"])
                 /\ UNCHANGED run
            ELSE ToIdle
    /\ aliased' = (aliased /\ mem'.active # None)
    /\ UNCHANGED <<files, thumbs, nextId, shouldDelete, peer>>

\* Lines 1013-1039 (remove_item_<id>).
ButtonRemove ==
    /\ pc = "idle"
    /\ disk.present
    /\ \E id \in KnownIds, editOk \in BOOLEAN :
         LET s  == load_user_session(disk)
             q  == RemoveId(s.queue, id)
             a  == IF s.active # None /\ s.active.id = id THEN None ELSE s.active
             s1 == IF a = None THEN ClearActive([s EXCEPT !.queue = q]) ELSE [s EXCEPT !.queue = q]
         IN  /\ mem' = s1
             /\ disk' = IF Len(q) < Len(s.queue) \/ (a = None /\ Len(q) = Len(s.queue))
                        THEN save_user_session(s1) ELSE disk
             /\ IF editOk
                THEN /\ CallList(ListCtx("remove"))
                     /\ UNCHANGED run
                ELSE ToIdle
    /\ aliased' = FALSE
    /\ UNCHANGED <<files, thumbs, qmsgs, nextId, shouldDelete, peer, pruned>>

\* Lines 1041-1062 (clear_all).
ButtonClearAll ==
    /\ pc = "idle"
    /\ disk.present
    /\ LET s == load_user_session(disk)
       IN  /\ mem' = ClearActive([s EXCEPT !.queue = <<>>])
           /\ pruned' = IF s.active # None THEN pruned \cup {s.active.url} ELSE pruned
    /\ disk' = save_user_session(mem')
    /\ aliased' = FALSE
    /\ ToIdle
    /\ UNCHANGED <<files, thumbs, qmsgs, nextId, shouldDelete, peer>>

\* Variant of SaveToList that appends a copy whether or not the queue has
\* the item.
SaveToList_AppendAlways(s) ==
    [s EXCEPT !.queue = Append(s.queue, [s.active EXCEPT !.status = "pending"]),
              !.active = None, !.amsg = 0]

\* Lines 1096-1109: save_to_list.
SaveToList(s) ==
    LET i == IndexOf(s.queue, s.active.id)
    IN  [s EXCEPT !.queue = IF i # 0 THEN [s.queue EXCEPT ![i].status = "pending"]
                            ELSE Append(s.queue, [s.active EXCEPT !.status = "pending"]),
                  !.active = None, !.amsg = 0]

\* Variant of CancelDownload that marks the queue entry cancelled in place.
CancelDownload_MarkOnly(s) ==
    LET i == IndexOf(s.queue, s.active.id)
    IN  [s EXCEPT !.queue = IF i # 0 THEN [s.queue EXCEPT ![i].status = "cancelled"] ELSE s.queue,
                  !.active = None, !.amsg = 0]

\* Lines 1126-1135: cancel_download.
CancelDownload(s) ==
    [s EXCEPT !.queue = RemoveId(s.queue, s.active.id), !.active = None, !.amsg = 0]

QualityFormat(choice) == IF choice = "quality_medium" THEN "medium" ELSE "worst"

\* Lines 1064-1152: a quality, save or cancel button of status message m.
ButtonQuality ==
    /\ pc = "idle"
    /\ disk.present
    /\ \E m \in qmsgs, editOk \in BOOLEAN, sendOk \in BOOLEAN,
          choice \in {"quality_medium", "quality_lowest", "save_to_list", "cancel_download"} :
         LET s == load_user_session(disk)
             c == [NoCtx EXCEPT !.kind = "quality"]
         IN  IF s.active = None \/ s.amsg # m
             THEN /\ mem' = s
                  /\ qmsgs' = IF editOk THEN qmsgs \ {m} ELSE qmsgs
                  /\ IF editOk \/ sendOk
                     THEN /\ CallList(ListCtx("stale"))
                          /\ UNCHANGED run
                     ELSE ToIdle
                  /\ UNCHANGED <<disk, pruned>>
             ELSE IF choice \in {"quality_medium", "quality_lowest"}
             THEN /\ qmsgs' = IF editOk THEN qmsgs \ {m} ELSE qmsgs
                  /\ IF editOk
                     THEN /\ mem' = SetStatus(s, FALSE, "downloading")
                          /\ pc' = "p_entry"
                          /\ ctx' = c
                          /\ run' = CallPipeline(mem', QualityFormat(choice))
                     ELSE /\ mem' = SetStatus(s, FALSE, "downloading")
                          /\ ToIdle
                  /\ UNCHANGED <<disk, pruned>>
             ELSE /\ mem' = IF choice = "save_to_list" THEN SaveToList(s) ELSE CancelDownload(s)
                  /\ disk' = save_user_session(mem')
                  /\ pruned' = IF choice = "cancel_download" THEN pruned \cup {s.active.url}
                               ELSE pruned
                  /\ qmsgs' = IF editOk THEN qmsgs \ {m} ELSE qmsgs
                  /\ IF editOk
                     THEN /\ CallList(ListCtx(choice))
                          /\ UNCHANGED run
                     ELSE ToIdle
    /\ aliased' = FALSE
    /\ UNCHANGED <<files, thumbs, nextId, shouldDelete, peer>>

----------------------------------------------------------------------------
(* download_and_send_video *)

\* Line 416: info_dict.get('filesize') or info_dict.get('filesize_approx').
Estimate(filesize, approx) ==
    IF filesize # NoSize /\ filesize # 0 THEN filesize ELSE approx

\* Variant of SizeDecision with a strict comparison at line 434.
SizeDecision_StrictLimit(est, fmt) ==
    IF est = NoSize THEN "PROCEED_UNKNOWN"
    ELSE IF est > TELEGRAM_MAX_FILE_SIZE_BYTES THEN "REJECT_TOO_LARGE"
    ELSE IF est < TELEGRAM_VIDEO_FILE_SIZE_LIMIT_BYTES THEN "PROCEED_AS_VIDEO"
    ELSE IF fmt = "best" THEN "NEEDS_SELECTION"
    ELSE "PROCEED_ANYWAY"

\* Lines 427-445: the branch taken for a probed estimate.
SizeDecision(est, fmt) ==
    IF est = NoSize THEN "PROCEED_UNKNOWN"
    ELSE IF est > TELEGRAM_MAX_FILE_SIZE_BYTES THEN "REJECT_TOO_LARGE"
    ELSE IF est <= TELEGRAM_VIDEO_FILE_SIZE_LIMIT_BYTES THEN "PROCEED_AS_VIDEO"
    ELSE IF fmt = "best" THEN "NEEDS_SELECTION"
    ELSE "PROCEED_ANYWAY"

\* Variant of ActionNeeded in which line 433 does not set the flag.
ActionNeeded_SelectionOnly(d) == d = "NEEDS_SELECTION"

\* Lines 433 and 441: action_needed.
ActionNeeded(d) == d \in {"REJECT_TOO_LARGE", "NEEDS_SELECTION"}

\* download_and_send_video returns to button_callback_handler (lines 974,
\* 980, 1149), or raises into it.
PipelineReturn(raised) ==
    IF ~raised
    THEN CallList([ctx EXCEPT !.ret = run.ret])
    ELSE IF ctx.kind \in {"start", "reparse"}
    THEN /\ pc' = "h_except"
         /\ UNCHANGED ctx
    ELSE /\ pc' = "idle"
         /\ ctx' = NoCtx

\* Variant of Caught that marks the attempt failed for good.
Caught_Permanent(s, q, editOk, r) ==
    /\ mem' = SetStatus(s, aliased, "failed")
    /\ disk' = save_user_session(mem')
    /\ qmsgs' = IF editOk THEN q \ {run.msg} ELSE q
    /\ run' = [r EXCEPT !.exc = ~editOk]
    /\ pc' = "p_finally"

\* Variant of Caught that returns to the caller from outside the try
\* statement, past its finally block.
Caught_PastFinally(s, q, editOk, r) ==
    /\ mem' = SetStatus(s, aliased, "failed_last_attempt")
    /\ disk' = save_user_session(mem')
    /\ qmsgs' = IF editOk THEN q \ {run.msg} ELSE q
    /\ run' = NoRun
    /\ pc' = "l_del"

\* Variant of Caught that marks the attempt as an internal failure.
Caught_Internal(s, q, editOk, r) ==
    /\ mem' = SetStatus(s, aliased, "failed_internal")
    /\ disk' = save_user_session(mem')
    /\ qmsgs' = IF editOk THEN q \ {run.msg} ELSE q
    /\ run' = [r EXCEPT !.exc = ~editOk]
    /\ pc' = "p_finally"

\* Variant of Caught that leaves a status that already marks a failed
\* delivery.
Caught_KeepSending(s, q, editOk, r) ==
    /\ mem' = IF s.active.status = "failed_sending" THEN s
              ELSE SetStatus(s, aliased, "failed_last_attempt")
    /\ disk' = save_user_session(mem')
    /\ qmsgs' = IF editOk THEN q \ {run.msg} ELSE q
    /\ run' = [r EXCEPT !.exc = ~editOk]
    /\ pc' = "p_finally"

\* The except clauses of lines 672-698: the attempt is marked
\* failed_last_attempt and saved, the status message is edited (editOk), and
\* control passes to the finally block.
Caught(s, q, editOk, r) ==
    /\ mem' = SetStatus(s, aliased, "failed_last_attempt")
    /\ disk' = save_user_session(mem')
    /\ qmsgs' = IF editOk THEN q \ {run.msg} ELSE q
    /\ run' = [r EXCEPT !.exc = ~editOk]
    /\ pc' = "p_finally"

\* Lines 371-389.
PipelineEntry ==
    /\ pc = "p_entry"
    /\ IF mem.active # None /\ mem.active.id # run.id
       THEN /\ mem' = [mem EXCEPT !.queue = RemoveId(mem.queue, run.id)]
            /\ disk' = save_user_session(mem')
            /\ PipelineReturn(FALSE)
       ELSE IF mem.active = None
       THEN /\ PipelineReturn(TRUE)
            /\ UNCHANGED <<mem, disk>>
       ELSE /\ mem' = SetStatus(mem, aliased, "downloading")
            /\ disk' = save_user_session(mem')
            /\ pc' = "p_probe"
            /\ UNCHANGED ctx
    /\ run' = IF pc' = "p_probe" THEN run ELSE NoRun
    /\ UNCHANGED <<aliased, files, thumbs, qmsgs, nextId, shouldDelete, peer, pruned>>

\* Lines 410-420: the metadata probe.
PipelineProbe ==
    /\ pc = "p_probe"
    /\ \E probeOk \in BOOLEAN, filesize \in ProbeSizes, approx \in ProbeSizes, editOk \in BOOLEAN :
         IF probeOk
         THEN /\ disk' = save_user_session(mem)
              /\ run' = [run EXCEPT !.est = Estimate(filesize, approx)]
              /\ pc' = "p_decide"
              /\ UNCHANGED <<mem, qmsgs>>
         ELSE Caught(mem, qmsgs, editOk, [run EXCEPT !.caught = "download"])
    /\ UNCHANGED <<aliased, ctx, files, thumbs, nextId, shouldDelete, peer, pruned>>

\* Lines 424-471: the decision on the estimate.
PipelineDecide ==
    /\ pc = "p_decide"
    /\ \E e1 \in BOOLEAN, e2 \in BOOLEAN, e3 \in BOOLEAN :
         LET d == SizeDecision(run.est, run.fmt)
             r == [run EXCEPT !.decision = d, !.est = NoSize,
                              !.asVideo = (d = "PROCEED_AS_VIDEO")]
             x == [r EXCEPT !.caught = "other"]
         IN  IF ~e1 THEN Caught(mem, qmsgs, e3, x)
             ELSE IF ActionNeeded(d)
             THEN IF ~e2 THEN Caught(mem, qmsgs \ {run.msg}, e3, x)
                  ELSE /\ mem' = SetStatus(mem, aliased, "awaiting_quality_selection")
                       /\ disk' = save_user_session(mem')
                       /\ qmsgs' = qmsgs \cup {run.msg}
                       /\ run' = r
                       /\ pc' = "p_finally"
             ELSE /\ qmsgs' = qmsgs \ {run.msg}
                  /\ run' = r
                  /\ pc' = "p_xfer"
                  /\ UNCHANGED <<mem, disk>>
    /\ UNCHANGED <<aliased, ctx, files, thumbs, nextId, shouldDelete, peer, pruned>>

\* Variant of the transfer step without the limit of line 487: it goes on
\* waiting for the transfer, turn after turn.
PipelineTransfer_NoTimeout ==
    /\ pc = "p_xfer"
    /\ run' = [run EXCEPT !.file = ~run.file]
    /\ UNCHANGED <<mem, aliased, disk, pc, ctx, files, thumbs, qmsgs, nextId,
                   shouldDelete, peer, pruned>>

\* Lines 485-538: the transfer, bounded by its timeout, and the file name.
PipelineTransfer ==
    /\ pc = "p_xfer"
    /\ \E out \in {"failed", "file", "no_file", "info_failed"}, e1 \in BOOLEAN, e2 \in BOOLEAN :
         IF out = "failed"
         THEN /\ Caught(mem, qmsgs, e1 \/ e2,
                        [run EXCEPT !.decision = "none",
                                    !.caught = IF e1 THEN "download" ELSE "other"])
              /\ UNCHANGED files
         ELSE IF out = "info_failed"
         THEN /\ Caught(mem, qmsgs, e1, [run EXCEPT !.decision = "none", !.caught = "download"])
              /\ files' = files \cup {run.url}
         ELSE /\ files' = IF out = "file" THEN files \cup {run.url} ELSE files
              /\ run' = [run EXCEPT !.file = TRUE, !.decision = "none"]
              /\ pc' = "p_size"
              /\ UNCHANGED <<mem, disk, qmsgs>>
    /\ UNCHANGED <<aliased, ctx, thumbs, nextId, shouldDelete, peer, pruned>>

\* Lines 544, 555 and 574: the branch taken for the measured size.
MeasuredSize(size) ==
    IF size > TELEGRAM_MAX_FILE_SIZE_BYTES THEN "reject"
    ELSE IF size > TELEGRAM_VIDEO_FILE_SIZE_LIMIT_BYTES THEN "select"
    ELSE "video"

\* Variant of SendAsVideo without the assignment of line 575.
SendAsVideo_Keep(sized, before) == before

\* Lines 574-575: send_as_video after the check of the measured size.
SendAsVideo(sized, before) == IF sized = "video" THEN TRUE ELSE before

\* Lines 323-343: the gateway call _send_media_file makes.
SendMode(asVideo) == IF asVideo THEN "video" ELSE "document"

\* Lines 540-595 and 661-670: the check of the measured size.
PipelineSize ==
    /\ pc = "p_size"
    /\ \E size \in Sizes, thumbOk \in BOOLEAN, e1 \in BOOLEAN, e2 \in BOOLEAN :
         LET sized == MeasuredSize(size)
             r == [run EXCEPT !.sized = sized, !.asVideo = SendAsVideo(sized, run.asVideo)]
         IN
         IF run.url \notin files
         THEN /\ Caught(mem, qmsgs, e1 \/ e2,
                        [run EXCEPT !.caught = IF e1 THEN "none" ELSE "other"])
              /\ UNCHANGED thumbs
         ELSE IF sized = "reject"
         THEN /\ IF e1
                 THEN /\ mem' = SetStatus(mem, aliased, "failed")
                      /\ disk' = save_user_session(mem')
                      /\ qmsgs' = qmsgs \ {run.msg}
                      /\ run' = r
                      /\ pc' = "p_finally"
                 ELSE Caught(SetStatus(mem, aliased, "failed"), qmsgs, e2,
                             [r EXCEPT !.caught = "other"])
              /\ UNCHANGED thumbs
         ELSE IF sized = "select"
         THEN /\ IF e1
                 THEN /\ mem' = SetStatus(mem, aliased, "awaiting_quality_selection")
                      /\ disk' = save_user_session(mem')
                      /\ qmsgs' = qmsgs \cup {run.msg}
                      /\ run' = r
                      /\ pc' = "p_finally"
                 ELSE Caught(SetStatus(mem, aliased, "awaiting_quality_selection"), qmsgs, e2,
                             [r EXCEPT !.caught = "other"])
              /\ UNCHANGED thumbs
         ELSE /\ thumbs' = IF thumbOk THEN thumbs \cup {run.url} ELSE thumbs
              /\ IF e1
                 THEN /\ mem' = SetStatus(mem, aliased, "sending")
                      /\ disk' = save_user_session(mem')
                      /\ qmsgs' = qmsgs \ {run.msg}
                      /\ run' = [r EXCEPT !.thumb = thumbOk, !.size = size]
                      /\ pc' = "p_send"
                 ELSE Caught(mem, qmsgs, e2, [r EXCEPT !.thumb = thumbOk, !.caught = "other"])
    /\ UNCHANGED <<aliased, ctx, files, nextId, shouldDelete, peer, pruned>>

\* Outcomes of the forward to the channel, lines 615-637: "none" when
\* TELEGRAM_CHANNEL_ID is not set (the variable is read once, at line 29, and
\* nothing else depends on it, so it is drawn with the outcome), "ok" or
\* "failed" as _send_media_file returns, "raised" when the call raises.
MirrorOutcomes == {"none", "ok", "failed", "raised"}

\* Variant of PipelineSend in which a forward to the channel that does not
\* succeed counts as a failed delivery.
PipelineSend_MirrorDecides ==
    /\ pc = "p_send"
    /\ \E sendOk \in BOOLEAN, editOk \in BOOLEAN, mirror \in MirrorOutcomes :
         IF mem.active # None /\ mem.active.id # run.id
         THEN /\ run' = run
              /\ pc' = "p_finally"
              /\ UNCHANGED <<mem, disk, qmsgs>>
         ELSE IF sendOk /\ mirror \in {"none", "ok"}
         THEN /\ mem' = SetStatus(mem, aliased, "completed")
              /\ disk' = save_user_session(mem')
              /\ run' = [run EXCEPT !.sent = "ok", !.mode = SendMode(run.asVideo),
                                    !.mirror = mirror, !.ret = TRUE]
              /\ pc' = "p_finally"
              /\ UNCHANGED qmsgs
         ELSE Caught(SetStatus(mem, aliased, "failed_sending"), qmsgs, editOk,
                     [run EXCEPT !.sent = IF sendOk THEN "ok" ELSE "failed",
                                 !.mode = SendMode(run.asVideo),
                                 !.mirror = IF sendOk THEN mirror ELSE "none",
                                 !.caught = "other"])
    /\ UNCHANGED <<aliased, ctx, files, thumbs, nextId, shouldDelete, peer, pruned>>

\* Lines 597-659: delivery to the user and, after it, the forward to the
\* channel.  On a failed delivery the f-string of line 647, and again of line
\* 654, reads the unbound local e: the UnboundLocalError is taken by the
\* except clause of line 686.
PipelineSend ==
    /\ pc = "p_send"
    /\ \E sendOk \in BOOLEAN, editOk \in BOOLEAN, mirror \in MirrorOutcomes :
         IF mem.active # None /\ mem.active.id # run.id
         THEN /\ run' = run
              /\ pc' = "p_finally"
              /\ UNCHANGED <<mem, disk, qmsgs>>
         ELSE IF sendOk
         THEN /\ mem' = SetStatus(mem, aliased, "completed")
              /\ disk' = save_user_session(mem')
              /\ run' = [run EXCEPT !.sent = "ok", !.mode = SendMode(run.asVideo),
                                    !.mirror = mirror, !.ret = TRUE]
              /\ pc' = "p_finally"
              /\ UNCHANGED qmsgs
         ELSE Caught(SetStatus(mem, aliased, "failed_sending"), qmsgs, editOk,
                     [run EXCEPT !.sent = "failed", !.mode = SendMode(run.asVideo),
                                 !.caught = "other"])
    /\ UNCHANGED <<aliased, ctx, files, thumbs, nextId, shouldDelete, peer, pruned>>

\* Variant of Finalize that prunes an item awaiting a quality choice from the
\* queue as it does a terminal one.
Finalize_PruneAwaiting(s, id) ==
    IF s.active # None /\ s.active.id = id
    THEN LET st == s.active.status
             i  == IndexOf(s.queue, id)
             q  == IF st \in TerminalStatuses \cup {"awaiting_quality_selection"}
                   THEN RemoveId(s.queue, id)
                   ELSE IF st \in RetryStatuses
                        THEN IF i # 0 THEN [s.queue EXCEPT ![i].status = st]
                             ELSE Append(s.queue, s.active)
                   ELSE s.queue
         IN  IF st # "awaiting_quality_selection" THEN ClearActive([s EXCEPT !.queue = q])
             ELSE [s EXCEPT !.queue = q]
    ELSE s

\* Variant of Finalize that leaves a completed item in the queue.
Finalize_KeepCompleted(s, id) ==
    IF s.active # None /\ s.active.id = id
    THEN LET st == s.active.status
             i  == IndexOf(s.queue, id)
             q  == IF st \in TerminalStatuses \ {"completed"} THEN RemoveId(s.queue, id)
                   ELSE IF st \in RetryStatuses
                        THEN IF i # 0 THEN [s.queue EXCEPT ![i].status = st]
                             ELSE Append(s.queue, s.active)
                   ELSE s.queue
         IN  IF st # "awaiting_quality_selection" THEN ClearActive([s EXCEPT !.queue = q])
             ELSE [s EXCEPT !.queue = q]
    ELSE s

\* Lines 718-752: the queue is brought in line with the outcome of the run.
Finalize(s, id) ==
    IF s.active # None /\ s.active.id = id
    THEN LET st == s.active.status
             i  == IndexOf(s.queue, id)
             q  == IF st \in TerminalStatuses THEN RemoveId(s.queue, id)
                   ELSE IF st \in RetryStatuses
                        THEN IF i # 0 THEN [s.queue EXCEPT ![i].status = st]
                             ELSE Append(s.queue, s.active)
                   ELSE s.queue
         IN  IF st # "awaiting_quality_selection" THEN ClearActive([s EXCEPT !.queue = q])
             ELSE [s EXCEPT !.queue = q]
    ELSE s

\* Variant of the finally block that removes the media file without
\* consulting SHOULD_DELETE_FILE.
PipelineFinally_DeleteAlways ==
    /\ pc = "p_finally"
    /\ files' = IF run.file /\ run.url \in files THEN files \ {run.url} ELSE files
    /\ thumbs' = IF run.thumb THEN thumbs \ {run.url} ELSE thumbs
    /\ mem' = Finalize(mem, run.id)
    /\ disk' = save_user_session(mem')
    /\ aliased' = (aliased /\ mem'.active # None)
    /\ pruned' = IF mem.active # None /\ mem.active.id = run.id
                    /\ mem.active.status \in TerminalStatuses
                 THEN pruned \cup {run.url} ELSE pruned
    /\ PipelineReturn(run.exc)
    /\ run' = NoRun
    /\ UNCHANGED <<qmsgs, nextId, shouldDelete, peer>>

\* Lines 699-754: the finally block.
PipelineFinally ==
    /\ pc = "p_finally"
    /\ files' = IF run.file /\ run.url \in files /\ shouldDelete THEN files \ {run.url} ELSE files
    /\ thumbs' = IF run.thumb THEN thumbs \ {run.url} ELSE thumbs
    /\ mem' = Finalize(mem, run.id)
    /\ disk' = save_user_session(mem')
    /\ aliased' = (aliased /\ mem'.active # None)
    /\ pruned' = IF mem.active # None /\ mem.active.id = run.id
                    /\ mem.active.status \in TerminalStatuses
                 THEN pruned \cup {run.url} ELSE pruned
    /\ PipelineReturn(run.exc)
    /\ run' = NoRun
    /\ UNCHANGED <<qmsgs, nextId, shouldDelete, peer>>

----------------------------------------------------------------------------

Next ==
    \/ HandleVideoLink
    \/ TitlesFetched
    \/ ListCommand
    \/ ListDeleteOld
    \/ ListShow
    \/ ButtonReset
    \/ ButtonNoOp
    \/ ButtonStart
    \/ ReparseProbe
    \/ StartExcept
    \/ ButtonRemove
    \/ ButtonClearAll
    \/ ButtonQuality
    \/ PipelineEntry
    \/ PipelineProbe
    \/ PipelineDecide
    \/ PipelineTransfer
    \/ PipelineSize
    \/ PipelineSend
    \/ PipelineFinally
    \/ Restart

Spec == Init /\ [][Next]_vars

----------------------------------------------------------------------------
(* A second chat.  Its session is user_download_sessions[other chat_id] and *)
(* its record <other chat_id>.json (lines 56-58, 171-179, 768-776,          *)
(* 869-882): no variable of this chat.  Its updates pass through the same   *)
(* Application (line 1194).                                                 *)

\* get_updates puts an update of the other chat in the update queue.
PeerUpdate ==
    /\ ~peer
    /\ peer' = TRUE
    /\ UNCHANGED <<mem, aliased, disk, pc, ctx, run, files, thumbs, qmsgs,
                   nextId, shouldDelete, pruned>>

\* The dispatcher takes the other chat's update and runs its handler to the
\* end: the Application of line 1194 awaits one handler at a time.
PeerHandle ==
    /\ pc = "idle"
    /\ peer
    /\ peer' = FALSE
    /\ UNCHANGED <<mem, aliased, disk, pc, ctx, run, files, thumbs, qmsgs,
                   nextId, shouldDelete, pruned>>

NextChats ==
    \/ Next
    \/ PeerUpdate
    \/ PeerHandle

SpecChats == Init /\ [][NextChats]_vars

-----------------------------------------------------------------------------
(* The process runs on without a stop: every step but Restart.               *)

NextRunning ==
    \/ HandleVideoLink
    \/ TitlesFetched
    \/ ListCommand
    \/ ListDeleteOld
    \/ ListShow
    \/ ButtonReset
    \/ ButtonNoOp
    \/ ButtonStart
    \/ ReparseProbe
    \/ StartExcept
    \/ ButtonRemove
    \/ ButtonClearAll
    \/ ButtonQuality
    \/ PipelineEntry
    \/ PipelineProbe
    \/ PipelineDecide
    \/ PipelineTransfer
    \/ PipelineSize
    \/ PipelineSend
    \/ PipelineFinally

SpecRunning == Init /\ [][NextRunning]_vars

-----------------------------------------------------------------------------
(* Every external call of a run returns or raises (the transfer within the   *)
(* limit of line 487), and the coroutine is resumed: a run takes its next    *)
(* step.                                                                     *)

PipelineStep ==
    \/ PipelineEntry
    \/ PipelineProbe
    \/ PipelineDecide
    \/ PipelineTransfer
    \/ PipelineSize
    \/ PipelineSend
    \/ PipelineFinally

SpecFair == Init /\ [][Next]_vars /\ WF_vars(PipelineStep)

-----------------------------------------------------------------------------
(* The remove button on stored sessions with up to MaxQueue queued items:    *)
(* the handler of lines 1013-1039 with the list refresh that ends it.        *)

MaxQueue == 3

\* Queues of items with distinct ids and urls, each pending or parse_failed.
RemoveQueues ==
    UNION {{q \in [1..n -> [id : 1..MaxQueue, url : 1..MaxQueue,
                            status : {"pending", "parse_failed"}]] :
              /\ \A i \in 1..n : q[i].url = q[i].id
              /\ \A i, j \in 1..n : q[i].id = q[j].id => i = j}
           : n \in 0..MaxQueue}

\* The session the handler loads at lines 868-869: a queue, and the active
\* slot empty or holding one of its items, halted for a quality choice.
InitRemove ==
    /\ \E q \in RemoveQueues, k \in 0..MaxQueue :
         /\ k <= Len(q)
         /\ disk = IF k = 0
                   THEN [EmptySession EXCEPT !.queue = q]
                   ELSE LET it == [q[k] EXCEPT !.status = "awaiting_quality_selection"]
                        IN  [present |-> TRUE, active |-> it, amsg |-> 1,
                             queue |-> [q EXCEPT ![k] = it]]
    /\ mem = disk
    /\ aliased = FALSE
    /\ pc = "idle"
    /\ ctx = NoCtx
    /\ run = NoRun
    /\ files = {}
    /\ thumbs = {}
    /\ qmsgs = {}
    /\ nextId = MaxQueue + 1
    /\ shouldDelete \in BOOLEAN
    /\ pruned = {}
    /\ peer = FALSE

NextRemove ==
    \/ ButtonRemove
    \/ ListDeleteOld
    \/ ListShow

SpecRemove == InitRemove /\ [][NextRemove]_vars

----------------------------------------------------------------------------
(* Properties *)

InRun == pc \in {"p_entry", "p_probe", "p_decide", "p_xfer", "p_size", "p_send", "p_finally"}

\* A start or re-parse button is accepted in this step.
StartAccepted ==
    /\ pc = "idle"
    /\ pc' \in {"p_entry", "h_reparse"}
    /\ ctx'.kind \in {"start", "reparse"}

\* C1: at most one pipeline run is in flight: a start or re-parse button is
\* accepted only when the stored session's active slot is empty and no run is
\* under way, and a run past its entry guard works on the active item.
C1_SingleRun ==
    [][/\ StartAccepted => (load_user_session(disk).active = None /\ run = NoRun)
       /\ pc' \in {"p_probe", "p_decide", "p_xfer", "p_size", "p_send"}
            => (mem'.active # None /\ mem'.active.id = run'.id)]_vars

\* A run is past its probe while another item waits, startable, in the queue.
C1_Witness ==
    /\ pc = "p_xfer"
    /\ ctx.kind = "start"
    /\ \E i \in DOMAIN mem.queue :
         mem.queue[i].id # run.id /\ mem.queue[i].status = "pending"

Holders(s) == {i \in DOMAIN s.queue : s.queue[i].id = s.active.id}

ActiveInQueue(s) == s.active # None => Cardinality(Holders(s)) = 1

\* C2: in the stored record always, and in the session whenever no run is
\* under way, an occupied active slot has exactly one queue entry with the
\* active item's id.
C2_ActiveInQueue ==
    /\ ActiveInQueue(disk)
    /\ ~InRun => ActiveInQueue(mem)

\* A run has ended leaving its item in the active slot, with a second item
\* in the queue.
C2_Witness ==
    /\ pc = "idle"
    /\ mem.active # None
    /\ mem.active.status = "awaiting_quality_selection"
    /\ disk = mem
    /\ Len(mem.queue) = 2

Range(f) == {f[i] : i \in DOMAIN f}

Count(q, url) == Cardinality({i \in DOMAIN q : q[i].url = url})

NoSharedUrl(s) == \A i, j \in DOMAIN s.queue : s.queue[i].url = s.queue[j].url => i = j

\* handle_video_link has gone through its loop and saved (line 835).
Enqueued == pc = "idle" /\ pc' = "h_titles"

C4_ResubmitFresh ==
    [][Enqueued =>
         \A u \in Range(ctx'.urls) \cap pruned :
            \E i \in DOMAIN mem'.queue :
               /\ mem'.queue[i].url = u
               /\ mem'.queue[i].status = "pending"
               /\ mem'.queue[i].id \notin KnownIds
               /\ mem'.queue[i].id \in KnownIds']_vars

\* A url whose item was pruned has been submitted again.
C4_Witness ==
    /\ pc = "h_titles"
    /\ ctx.again # {}

\* The resolver table of the specification.
ReferenceDecision(est, isDefault) ==
    CASE est = NoSize -> "PROCEED_UNKNOWN"
      [] est # NoSize /\ est <= 50 * 1024 * 1024 -> "PROCEED_AS_VIDEO"
      [] est # NoSize /\ est > 1950000000 -> "REJECT_TOO_LARGE"
      [] OTHER -> IF isDefault THEN "NEEDS_SELECTION" ELSE "PROCEED_ANYWAY"

\* C5: the branch taken for a probed estimate depends on the estimate and on
\* whether the format is the default one only, and is the one the reference
\* table gives (50 MB included in PROCEED_AS_VIDEO, 1.95 GB excluded from
\* REJECT_TOO_LARGE); the run goes on to the transfer exactly on a PROCEED.
C5_SizeDecision ==
    [][pc = "p_decide" /\ pc' \in {"p_xfer", "p_finally"} =>
         /\ run'.decision = ReferenceDecision(run.est, run.fmt = "best")
         /\ pc' = "p_xfer" => run'.decision \in {"PROCEED_UNKNOWN", "PROCEED_AS_VIDEO", "PROCEED_ANYWAY"}
         /\ mem'.active.status = "awaiting_quality_selection"
              => run'.decision \in {"REJECT_TOO_LARGE", "NEEDS_SELECTION"}]_vars

\* A run with a chosen quality went on to the transfer with an estimate
\* between the two limits.
C5_Witness ==
    /\ pc = "p_xfer"
    /\ run.decision = "PROCEED_ANYWAY"

\* The finally block runs in this step (a restart returns to the dispatcher
\* and leaves the stored record as it is).
Finalized == pc = "p_finally" /\ (pc' # "idle" \/ disk' # disk)

EntryOf(s, id) == s.queue[IndexOf(s.queue, id)]

\* C6: a pending item that is started, whose estimate is 30 MB, whose transfer
\* succeeds, whose measured size is within the direct-video limit and whose
\* delivery succeeds goes from pending to downloading, from downloading to
\* sending and from sending to completed, one step of the run after the
\* other; the finally block then leaves it out of the queue, empties the
\* active slot, saves, and under the delete policy leaves no media file and
\* no thumbnail of the run.  (A step whose status message cannot be edited
\* ends the run in failed_last_attempt instead.)
C6_HappyPath ==
    [][/\ (StartAccepted /\ ctx'.kind = "start" /\ ctx'.was = "pending") =>
            /\ EntryOf(load_user_session(disk), ctx'.id).status = "pending"
            /\ mem'.active.id = ctx'.id
            /\ mem'.active.status = "downloading"
            /\ pc' = "p_entry"
       /\ (pc = "p_entry" /\ pc' = "p_probe") => mem'.active.status = "downloading"
       /\ (pc = "p_probe" /\ pc' = "p_decide") => mem'.active.status = "downloading"
       /\ (pc = "p_decide" /\ run.est = 31457280 /\ pc' \in {"p_xfer", "p_finally"}) =>
            \/ pc' = "p_xfer" /\ mem'.active.status = "downloading"
            \/ pc' = "p_finally" /\ mem'.active.status = "failed_last_attempt"
       /\ (pc = "p_xfer" /\ pc' = "p_size") => mem'.active.status = "downloading"
       /\ (pc = "p_size" /\ pc' = "p_send") =>
            mem.active.status = "downloading" /\ mem'.active.status = "sending"
       /\ (pc = "p_send" /\ pc' = "p_finally" /\ run'.ret) =>
            mem.active.status = "sending" /\ mem'.active.status = "completed"
       /\ (Finalized /\ mem.active.status = "completed") =>
            /\ mem.active.id = run.id
            /\ run.id \notin QueueIds(mem')
            /\ mem'.active = None
            /\ disk' = mem'
            /\ ctx'.ret
            /\ shouldDelete => run.url \notin files'
            /\ run.thumb => run.url \notin thumbs']_vars

\* A started item was delivered and its run has ended, under the delete
\* policy.
C6_Witness ==
    /\ pc = "l_del"
    /\ ctx.kind = "start"
    /\ ctx.was = "pending"
    /\ ctx.ret
    /\ shouldDelete
    /\ mem.active = None
    /\ ctx.id \notin QueueIds(mem)
    /\ files = {}
    /\ thumbs = {}

C8_TransferFailure ==
    [][/\ (pc = "p_xfer" /\ pc' = "p_finally") =>
            /\ mem'.active.id = run.id
            /\ mem'.active.status = "failed_last_attempt"
            /\ disk' = mem'
       /\ (Finalized /\ mem.active.status = "failed_last_attempt") =>
            /\ mem'.active = None
            /\ Cardinality({i \in DOMAIN mem'.queue : mem'.queue[i].id = run.id}) = 1
            /\ EntryOf(mem', run.id).status = "failed_last_attempt"
            /\ disk' = mem'
       /\ \A i \in DOMAIN load_user_session(disk).queue :
            LET s == load_user_session(disk)
            IN  (s.active = None /\ s.queue[i].status = "failed_last_attempt")
                   => StartCheck(s, s.queue[i].id, FALSE) = "ok"
       /\ (StartAccepted /\ ctx'.kind = "start" /\ ctx'.was = "failed_last_attempt") =>
            /\ pc' = "p_entry"
            /\ run' = CallPipeline(mem', "best")
            /\ mem'.active.id = ctx'.id
            /\ mem'.active.status = "downloading"]_vars

\* An item whose attempt failed has been started again and is at the probe.
C8_Witness ==
    /\ pc = "p_probe"
    /\ ctx.kind = "start"
    /\ ctx.was = "failed_last_attempt"

ItemIds(s) == (IF s.active # None THEN {s.active.id} ELSE {}) \cup QueueIds(s)

\* Ids of the items of s that have not reached a terminal outcome.
LiveIds(s) ==
    (IF s.active # None /\ s.active.status \notin TerminalStatuses THEN {s.active.id} ELSE {})
    \cup {s.queue[i].id : i \in {j \in DOMAIN s.queue : s.queue[j].status \notin TerminalStatuses}}

\* C9: wherever the process stops, the session reloaded from the stored record
\* has exactly one queue entry for an occupied active slot, and holds every
\* item the session held at the stop that had not reached a terminal outcome.
C9_CrashRecovery ==
    /\ ActiveInQueue(load_user_session(disk))
    /\ LiveIds(mem) \subseteq ItemIds(load_user_session(disk))

\* C10: when no run is under way, no queue entry has a terminal status.
C10_NoTerminalQueued ==
    ~InRun => \A i \in DOMAIN mem.queue : mem.queue[i].status \notin TerminalStatuses

\* The buttons of keyboard kb that carry the id of an item.
ButtonsFor(kb, id) ==
    UNION {{kb[r][c].data : c \in {k \in DOMAIN kb[r] :
                                      /\ kb[r][k].arg = id
                                      /\ kb[r][k].data \in {"start_download", "reparse_item", "remove_item"}}}
           : r \in DOMAIN kb}

RetryButton(status) == IF status = "parse_failed" THEN "reparse_item" ELSE "start_download"

C12_DeliveryFailedStatus ==
    (pc = "p_finally" /\ run.sent = "failed") =>
        /\ mem.active.status = "failed_sending"
        /\ disk.active.status = "failed_sending"

C14_ProbeFailure ==
    [][/\ (pc = "h_titles" /\ pc' = "l_del") =>
            \A res \in [DOMAIN ctx.new -> BOOLEAN] :
               \A k \in DOMAIN ctx.new :
                  ~res[k] => /\ ctx.new[k].idx \in DOMAIN mem.queue
                             /\ ApplyTitles(mem.queue, ctx.new, res)[ctx.new[k].idx].status
                                  = "parse_failed"
       /\ (pc = "h_reparse" /\ pc' \in {"l_del", "h_except"}) =>
            /\ mem'.active.status = "parse_failed"
            /\ EntryOf(mem', mem'.active.id).status = "parse_failed"
       /\ (pc = "p_probe" /\ pc' = "p_finally") =>
            /\ mem'.active.status = "parse_failed"
            /\ EntryOf(mem', mem'.active.id).status = "parse_failed"]_vars

\* C15 as it was stated: an exception in a run that is neither a fetcher error
\* nor a failed delivery (a message edit that fails) ends with the item out of
\* the queue and the active slot empty.
C15_InternalErrorRemoved ==
    [][(Finalized /\ run.caught = "other" /\ run.sent # "failed") =>
         /\ mem'.active = None
         /\ run.id \notin QueueIds(mem')]_vars

\* C15, amended: such an exception inside a run is taken by the except clause
\* of line 686: the item is marked failed_last_attempt, the finally block
\* keeps it in the queue with that status and empties the active slot, and
\* when the exception leaves the run the handler finds the slot empty and
\* removes nothing.  The except clause of the start / re-parse handler removes
\* the item from the queue and empties the active slot exactly when the item
\* still holds the active slot.
C15_UnexpectedException ==
    [][/\ (Finalized /\ run.caught = "other") =>
            /\ mem.active.id = run.id
            /\ mem.active.status = "failed_last_attempt"
            /\ mem'.active = None
            /\ Cardinality({i \in DOMAIN mem'.queue : mem'.queue[i].id = run.id}) = 1
            /\ EntryOf(mem', run.id).status = "failed_last_attempt"
            /\ disk' = mem'
       /\ (Finalized /\ run.exc /\ ctx.kind \in {"start", "reparse"}) =>
            /\ pc' = "h_except"
            /\ mem'.active = None
       /\ StartExcept =>
            IF mem.active # None /\ mem.active.id = ctx.id
            THEN /\ mem'.active = None
                 /\ ctx.id \notin QueueIds(mem')
                 /\ disk' = mem'
            ELSE /\ mem' = mem
                 /\ disk' = disk]_vars

\* A message edit failed in a run, and again in its except clause; the
\* exception has reached the start handler, which finds the item in the queue
\* and the active slot empty.
C15_Witness ==
    /\ pc = "h_except"
    /\ ctx.kind = "start"
    /\ mem.active = None
    /\ ctx.id \in QueueIds(mem)
    /\ EntryOf(mem, ctx.id).status = "failed_last_attempt"

\* The steps of a run inside its try statement (lines 391-698).
InTry == pc \in {"p_probe", "p_decide", "p_xfer", "p_size", "p_send"}

Content(s) == [active |-> s.active, amsg |-> s.amsg, queue |-> s.queue]

\* C17: whenever control is back with the dispatcher, the stored record equals
\* the session held in memory.
C17_SavedOnReturn ==
    (pc = "idle" /\ mem.present) => Content(disk) = Content(mem)

\* C18: when list_downloads has rendered the list, rendering it again with no
\* submission or button event in between (the session in memory is the one
\* the first rendering left) gives the same rows in the same order and the
\* same keyboard, and leaves the session as it is.
C18_RenderIdempotent ==
    [][ListShow =>
         LET again == ReconcileFailedActive(EnsureSession(mem', disk'))
         IN  /\ Rendered(again) = Rendered(mem')
             /\ again = mem']_vars

\* list_downloads, called after a re-parse whose probe failed, has folded the
\* item back into the queue; its message could not be sent, and the handler
\* is about to call it again.
C18_Witness ==
    /\ pc = "h_except"
    /\ ctx.kind = "reparse"
    /\ ctx.msg # 0
    /\ mem.active = None
    /\ ctx.id \in QueueIds(mem)
    /\ EntryOf(mem, ctx.id).status = "parse_failed"
    /\ Len(mem.queue) = 2

\* C19: a cancel, clear-all or remove button handled while the stored active
\* item is in downloading or sending leaves that item in the active slot and
\* in the queue.
C19_NoPreemption ==
    [][(/\ pc = "idle"
        /\ ButtonRemove \/ ButtonClearAll \/ ButtonQuality
        /\ load_user_session(disk).active.status \in {"downloading", "sending"}) =>
         /\ mem'.active.id = load_user_session(disk).active.id
         /\ mem'.active.id \in QueueIds(mem')]_vars

\* A quality, save or cancel button is handled in this step and does not
\* belong to the status message of the stored active item.
LateButton ==
    /\ pc = "idle"
    /\ ButtonQuality
    /\ \/ load_user_session(disk).active = None
       \/ load_user_session(disk).amsg \notin qmsgs
       \/ ctx'.kind = "stale"

\* C20: a quality, save or cancel button that does not target the active item
\* starts no run and leaves the active slot and the queue of the stored
\* session as they are, up to the end of its handler (the list refresh of
\* line 1075 included).
C20_LateButtonDiscarded ==
    [][/\ LateButton =>
            /\ pc' \in {"l_del", "idle"}
            /\ run' = NoRun
            /\ Content(mem') = Content(load_user_session(disk))
            /\ disk' = disk
       /\ (ctx.kind = "stale" /\ pc \in {"l_del", "l_show"} /\ ~Restart) =>
            /\ pc' \in {"l_show", "idle"}
            /\ run' = NoRun
            /\ Content(mem') = Content(mem)
            /\ Content(disk') = Content(mem)]_vars

----------------------------------------------------------------------------
\* C21: the chats are independent: a handler of one chat leaves the other
\* chat's session and record alone, and a pipeline run in flight for one
\* chat does not keep an update of another chat from being handled.  Stated
\* for the second half: whenever an update of the other chat waits while a
\* pipeline run of this chat is in flight, the dispatcher can take it.
C21_PeerNotBlocked == (InRun /\ peer) => ENABLED PeerHandle

HaltDecisions == {"REJECT_TOO_LARGE", "NEEDS_SELECTION"}

\* C22: when the decision on the probed estimate is REJECT_TOO_LARGE or
\* NEEDS_SELECTION, the run goes from the decision to its finally block: the
\* transfer step is not taken in that attempt and the set of local media
\* files stays as it was, through the decision and through the end of the run.
C22_NoTransferOnHalt ==
    [][/\ (pc = "p_decide" /\ pc' # "idle"
              /\ SizeDecision(run.est, run.fmt) \in HaltDecisions) =>
            /\ pc' = "p_finally"
            /\ run'.decision = SizeDecision(run.est, run.fmt)
            /\ ~run'.file
            /\ files' = files
       /\ pc' = "p_xfer" => run'.decision \notin HaltDecisions
       /\ files' # files /\ files \subseteq files' => pc = "p_xfer"
       /\ (pc = "p_finally" /\ run.decision \in HaltDecisions) =>
            /\ ~run.file
            /\ files' = files]_vars

\* A run with the lowest quality stopped at an estimate above the upload
\* limit and reached its finally block.
C22_Witness ==
    /\ pc = "p_finally"
    /\ run.decision = "REJECT_TOO_LARGE"
    /\ run.fmt = "worst"
    /\ run.url \notin files

\* The size lies above the direct-video limit and within the upload limit.
InBand(size) ==
    /\ size > TELEGRAM_VIDEO_FILE_SIZE_LIMIT_BYTES
    /\ size <= TELEGRAM_MAX_FILE_SIZE_BYTES

\* C23: an attempt with a chosen (non-default) format whose size lies above
\* the direct-video limit and within the upload limit does not prompt again:
\* neither the decision on such an estimate nor the check of the measured
\* size (which sets that status for a size in this band only) leaves the item
\* awaiting a quality choice.
C23_NoReprompt ==
    [][(/\ run.fmt # "best"
        /\ \/ pc = "p_decide" /\ InBand(run.est) /\ pc' \in {"p_xfer", "p_finally"}
           \/ pc = "p_size" /\ pc' \in {"p_send", "p_finally"})
          => mem'.active.status # "awaiting_quality_selection"]_vars

\* C24: when the measured size of the downloaded file is above the upload
\* limit, the check of the size marks the item failed and delivers nothing,
\* and the finally block removes the item from the queue and empties the
\* active slot; the status message carries no quality buttons.
C24_MeasuredTooLarge ==
    [][/\ (pc = "p_size" /\ pc' = "p_finally" /\ run'.sized = "reject") =>
            /\ mem'.active.id = run.id
            /\ mem'.active.status = "failed"
            /\ run'.sent = "unset"
            /\ ~run'.ret
       /\ (Finalized /\ run.sized = "reject") =>
            /\ run.id \notin QueueIds(mem')
            /\ mem'.active = None
            /\ run.msg \notin qmsgs'
            /\ disk' = mem']_vars

\* The check of the measured size stopped the run that is in its finally
\* block.
SizeHalted == run.sized \in {"reject", "select"}

\* C25 as it was stated: when the check of the measured size has stopped the
\* run, the downloaded file is gone once the finally block has run, whatever
\* SHOULD_DELETE_FILE says; for a size within the upload limit the item is
\* left awaiting a quality choice in the active slot and in the queue.
C25_FileDiscarded ==
    [][(Finalized /\ SizeHalted) =>
          /\ run.url \notin files'
          /\ run.sized = "select" =>
                /\ mem'.active.id = run.id
                /\ mem'.active.status = "awaiting_quality_selection"
                /\ EntryOf(mem', run.id).status = "awaiting_quality_selection"]_vars

\* C25, amended: the finally block removes the downloaded file when
\* SHOULD_DELETE_FILE is set and keeps it otherwise.  For a size within the
\* upload limit the item is left awaiting a quality choice in the active slot
\* and once in the queue when the prompt was shown; when the status message
\* could not be edited it ends in failed_last_attempt in the queue and the
\* active slot is emptied.  The record is saved in both cases.
C25_FileReleasedByPolicy ==
    [][(Finalized /\ SizeHalted) =>
          /\ run.file
          /\ run.url \in files
          /\ shouldDelete => run.url \notin files'
          /\ ~shouldDelete => run.url \in files'
          /\ (run.sized = "select" /\ run.caught = "none") =>
                /\ mem'.active.id = run.id
                /\ mem'.active.status = "awaiting_quality_selection"
                /\ mem'.amsg = run.msg
                /\ Cardinality({i \in DOMAIN mem'.queue : mem'.queue[i].id = run.id}) = 1
                /\ EntryOf(mem', run.id).status = "awaiting_quality_selection"
          /\ (run.sized = "select" /\ run.caught # "none") =>
                /\ mem'.active = None
                /\ EntryOf(mem', run.id).status = "failed_last_attempt"
          /\ disk' = mem']_vars

\* The file of a run measured between the two limits, the quality prompt was
\* shown, and the finally block is about to run with the file to be kept.
C25_Witness ==
    /\ pc = "p_finally"
    /\ run.sized = "select"
    /\ run.caught = "none"
    /\ run.file
    /\ run.url \in files
    /\ ~shouldDelete
    /\ mem.active.status = "awaiting_quality_selection"

\* C26: when the estimate is above the upload limit and the status message
\* can be edited, the decision leaves the item awaiting a quality choice only
\* if the attempt does not already use the lowest quality; with the lowest
\* quality it marks the item failed, and the finally block removes it from
\* the queue and empties the active slot.
C26_LowestFormatFails ==
    [][/\ (pc = "p_decide" /\ pc' = "p_finally" /\ run'.caught = "none"
              /\ run.est > TELEGRAM_MAX_FILE_SIZE_BYTES) =>
            IF run.fmt = "worst"
            THEN mem'.active.status = "failed"
            ELSE mem'.active.status = "awaiting_quality_selection"
       /\ (Finalized /\ run.decision = "REJECT_TOO_LARGE" /\ run.caught = "none"
              /\ run.fmt = "worst") =>
            /\ mem'.active = None
            /\ run.id \notin QueueIds(mem')]_vars

\* A step of a handler or of a run (any step but a process stop).
HandlerStep ==
    \/ HandleVideoLink \/ TitlesFetched \/ ListCommand \/ ListDeleteOld \/ ListShow
    \/ ButtonReset \/ ButtonNoOp \/ ButtonStart \/ ReparseProbe \/ StartExcept
    \/ ButtonRemove \/ ButtonClearAll \/ ButtonQuality
    \/ PipelineEntry \/ PipelineProbe \/ PipelineDecide \/ PipelineTransfer
    \/ PipelineSize \/ PipelineSend \/ PipelineFinally

\* C27: every step of a handler that hands control back to the dispatcher
\* (the end of a run, of a rendering of the list, of any event; also the
\* first one after a process stop) leaves the active slot empty or holding an
\* item whose status is neither terminal nor retryable-failed.
C27_ActiveReconciled ==
    [][(HandlerStep /\ pc' = "idle") =>
          \/ mem'.active = None
          \/ mem'.active.status \notin TerminalStatuses \cup RetryStatuses]_vars

\* A first step of button_callback_handler that can end in one of its return
\* statements (lines 887, 900, 1039, 1062).  The first steps for a missing
\* record and for a quality, save or cancel button call list_downloads
\* before they return, unless a gateway call raises out of the handler.
ButtonReturn == ButtonNoOp \/ ButtonStart \/ ButtonRemove \/ ButtonClearAll

\* C29: the handler of a button event (a dummy button, a start or re-parse
\* button accepted or rejected, a remove button, clear_all, a quality, save or
\* cancel button) returns only after a rendering of the list: no step of the
\* handler but the one that ends list_downloads hands control back to the
\* dispatcher.  (A handler left by an exception does not return and is not
\* counted.)
C29_ButtonsRender ==
    [][(pc' = "idle" /\ ButtonReturn) => ListShow]_vars

\* C30: the forward to the channel is attempted only in a run whose delivery
\* to the user has succeeded, and whatever its outcome (not configured,
\* sent, refused, raised) the run ends as a delivered one: the status
\* completed is saved, the run returns True with no exception taken, and the
\* finally block removes the item from the queue and empties the active slot.
C30_MirrorSideEffect ==
    [][/\ (pc = "p_send" /\ pc' = "p_finally") =>
            /\ run'.mirror # "none" => run'.sent = "ok"
            /\ run'.sent = "ok" =>
                  /\ mem'.active.id = run.id
                  /\ mem'.active.status = "completed"
                  /\ disk' = mem'
                  /\ run'.ret
                  /\ run'.caught = "none"
                  /\ ~run'.exc
       /\ run'.mirror # "none" => pc \in {"p_send", "p_finally"}
       /\ (Finalized /\ run.sent = "ok") =>
            /\ mem'.active = None
            /\ run.id \notin QueueIds(mem')
            /\ run.url \in pruned'
            /\ disk' = mem'
            /\ ctx'.ret]_vars

\* The user got the file, the forward to the channel raised, and the item is
\* completed.
C30_Witness ==
    /\ pc = "p_finally"
    /\ run.sent = "ok"
    /\ run.mirror = "raised"
    /\ mem.active.status = "completed"
    /\ disk = mem

\* C31 as it was stated: a start button of a queued item is turned away as
\* busy only if the active slot holds a different item; when the start is
\* accepted the item is in the active slot and in its queue entry with status
\* downloading, saved, and the run begins.
C31_StartFailsOnlyForOther ==
    [][/\ (pc = "idle" /\ disk.present) =>
            LET s == load_user_session(disk)
            IN  \A i \in DOMAIN s.queue :
                  (s.active = None \/ s.active.id = s.queue[i].id)
                     => StartCheck(s, s.queue[i].id, FALSE) # "busy"
       /\ (StartAccepted /\ ctx'.kind = "start") =>
            /\ mem'.active.id = ctx'.id
            /\ mem'.active.status = "downloading"
            /\ EntryOf(mem', ctx'.id).status = "downloading"
            /\ pc' = "p_entry"]_vars

\* C31, amended: a start button is turned away as busy whenever the active
\* slot is occupied, by the same item as well as by another one.  It is
\* accepted only with the slot empty, for a queue entry in pending or
\* failed_last_attempt; the entry is then the active item, both with status
\* downloading, the other entries are untouched, the record is saved, and
\* the run begins with the default format.
C31_StartPromotes ==
    [][/\ (pc = "idle" /\ disk.present) =>
            LET s == load_user_session(disk)
            IN  \A id \in KnownIds :
                  s.active # None => StartCheck(s, id, FALSE) = "busy"
       /\ (StartAccepted /\ ctx'.kind = "start") =>
            LET s  == load_user_session(disk)
                id == ctx'.id
            IN  /\ s.active = None
                /\ id \in QueueIds(s)
                /\ EntryOf(s, id).status \in {"pending", "failed_last_attempt"}
                /\ mem'.active = [EntryOf(s, id) EXCEPT !.status = "downloading"]
                /\ mem'.amsg = ctx'.msg
                /\ Len(mem'.queue) = Len(s.queue)
                /\ \A i \in DOMAIN s.queue :
                      mem'.queue[i] = IF s.queue[i].id = id THEN mem'.active ELSE s.queue[i]
                /\ disk' = mem'
                /\ pc' = "p_entry"
                /\ run'.id = id
                /\ run'.fmt = "best"]_vars

\* A retry of an item whose last attempt failed was accepted while another
\* item waits in the queue.
C31_Witness ==
    /\ pc = "p_entry"
    /\ ctx.kind = "start"
    /\ ctx.was = "failed_last_attempt"
    /\ mem.active.status = "downloading"
    /\ Len(mem.queue) = 2

\* C32 as it was stated: a re-parse of a parse_failed item runs the metadata
\* probe alone and transfers nothing; when the probe succeeds the item is
\* pending and the run begins at once with format best; when it fails the
\* item is parse_failed, keeps its queue entry through the rest of the
\* handler, and the handler ends with the active slot empty.
C32_ReparseOutcome ==
    [][/\ (pc = "h_reparse" /\ ReparseProbe) =>
            /\ ctx.kind = "reparse"
            /\ ctx.was = "parse_failed"
            /\ files' = files
            /\ IF pc' = "p_entry"
               THEN /\ mem'.active.status = "pending"
                    /\ EntryOf(mem', ctx.id).status = "pending"
                    /\ run'.id = ctx.id
                    /\ run'.fmt = "best"
               ELSE /\ mem'.active.status = "parse_failed"
                    /\ EntryOf(mem', ctx.id).status = "parse_failed"
       /\ ( /\ ctx.kind = "reparse"
            /\ mem.active # None
            /\ mem.active.id = ctx.id
            /\ mem.active.status = "parse_failed"
            /\ HandlerStep ) =>
            /\ ctx.id \in QueueIds(mem')
            /\ EntryOf(mem', ctx.id).status = "parse_failed"
            /\ pc' = "idle" => mem'.active = None]_vars

\* Number of entries of q before position i that carry the id.
Before(q, i, id) == Cardinality({j \in 1..(i - 1) : q[j].id = id})

C34_SaveToQueue ==
    [][/\ (pc = "idle" /\ ButtonQuality) =>
            LET s == load_user_session(disk)
            IN  /\ ctx'.kind = "save_to_list" =>
                      /\ mem'.active = None
                      /\ s.active.id \in QueueIds(mem')
                /\ ( /\ s.active # None
                     /\ s.active.status = "awaiting_quality_selection"
                     /\ mem'.active = None
                     /\ s.active.id \in QueueIds(mem') ) =>
                      /\ Cardinality({i \in DOMAIN mem'.queue :
                                         mem'.queue[i].id = s.active.id}) = 1
                      /\ EntryOf(mem', s.active.id).status = "pending"
                      /\ EntryOf(mem', s.active.id).url = s.active.url
                      /\ disk' = mem'
                      /\ StartCheck(load_user_session(disk'), s.active.id, FALSE) = "ok"
       /\ (ctx.kind = "save_to_list" /\ HandlerStep) =>
            /\ mem'.queue = mem.queue
            /\ mem'.active = None
            /\ pc' = "idle" => load_user_session(disk') = mem']_vars

\* The item halted for a quality choice was saved back while another item
\* waits in the queue.
C34_Witness ==
    /\ pc = "l_del"
    /\ ctx.kind = "save_to_list"
    /\ mem.active = None
    /\ Len(mem.queue) = 2
    /\ \A i \in DOMAIN mem.queue : mem.queue[i].status = "pending"
    /\ disk = mem

\* C35: a run that is in flight comes to an end, and the step with which it
\* ends by itself leaves the active slot empty or holding an item that
\* awaits a quality choice, in memory and in the saved record: no run leaves
\* the item downloading or sending.
C35_RunEnds ==
    /\ InRun ~> ~InRun
    /\ [][(InRun /\ ~InRun' /\ PipelineStep) =>
             /\ \/ mem'.active = None
                \/ mem'.active.status = "awaiting_quality_selection"
             /\ disk'.active = mem'.active]_vars

\* A run has ended after its transfer failed: the list is being refreshed,
\* the active slot is empty and the item is back in the queue for a retry.
C35_Witness ==
    /\ pc = "l_del"
    /\ ctx.kind = "start"
    /\ run = NoRun
    /\ mem.active = None
    /\ \E i \in DOMAIN mem.queue :
         mem.queue[i].id = ctx.id /\ mem.queue[i].status = "failed_last_attempt"

\* C36: the items a rendering of the list collects carry pairwise distinct
\* ids: the item of the active slot is not listed a second time through its
\* queue entry.
C36_DisplayedOnce ==
    [][(pc = "l_show" /\ ListShow) =>
         LET d == DisplayItems(mem')
         IN  \A i, j \in DOMAIN d : d[i].id = d[j].id => i = j]_vars

\* C37: while the process runs on and no handler is executing, the active
\* slot of the cached session and that of the saved record are empty or hold
\* an item that awaits a quality choice, whichever gateway calls failed.
C37_IdleSlotSettled ==
    pc = "idle" =>
        /\ mem.active = None \/ mem.active.status = "awaiting_quality_selection"
        /\ disk.active = None \/ disk.active.status = "awaiting_quality_selection"

\* C38: no state, those after a process stop in the middle of a run
\* included, has the dispatcher idle (no run in flight) and the stored
\* active slot holding an item with status downloading, sending or completed
\* that makes every start and every re-parse button be turned away.
C38_NoStuckSlot ==
    ~ ( /\ pc = "idle"
        /\ disk.present
        /\ LET s == load_user_session(disk)
           IN  /\ s.active # None
               /\ s.active.status \in {"downloading", "sending", "completed"}
               /\ s.queue # <<>>
               /\ \A id \in KnownIds :
                    /\ StartCheck(s, id, FALSE) # "ok"
                    /\ StartCheck(s, id, TRUE) # "ok" )

\* C39: a file is delivered to the user only after the check of its measured
\* size has let it pass; its measured size is then at most the limit for a
\* direct video, and the gateway call that delivers it is the one for a
\* video; the one for a document is never made for the user.
C39_DeliveredAsVideo ==
    [][/\ (pc = "p_send" /\ PipelineSend /\ run'.sent = "ok") =>
            /\ run.sized = "video"
            /\ run.size # NoSize
            /\ run.size <= TELEGRAM_VIDEO_FILE_SIZE_LIMIT_BYTES
            /\ run.url \in files
            /\ run'.mode = "video"
       /\ run'.sent # "unset" => run'.sized = "video"
       /\ run'.mode # "document"]_vars

\* A file of exactly the limit, fetched in a format the user chose, has been
\* delivered.
C39_Witness ==
    /\ pc = "p_finally"
    /\ run.sent = "ok"
    /\ run.fmt = "worst"
    /\ run.size = TELEGRAM_VIDEO_FILE_SIZE_LIMIT_BYTES
    /\ run.mode = "video"

====
